---- MODULE Spec2Model ----
\* Object-permission forms of guardian/forms.py: the four save_obj_perms
\* methods (user, add-user, group, add-group) reconciling the posted
\* permissions of one (principal, object) pair against the grant store.
EXTENDS Integers, Sequences, FiniteSets, TLC

\* ---------------------------------------------------------------- bounds
\* Largest number of Permission rows of the managed object's model.
MaxCatalog == 2
\* Longest posted list of permissions (a POST may repeat a value).
MaxPerms == 2

\* ------------------------------------------------------------- universes
\* auth.User rows and auth.Group rows, as (table, primary key).
Users == {<<"User", 1>>, <<"User", 2>>}
Groups == {<<"Group", 1>>}
Principals == Users \cup Groups
NoPrincipal == <<"None", 0>>
\* Primary keys a POST can carry in the 'user' / 'group' field; 3 is the pk
\* of no row (a deleted row, a tampered request).
PostedIds == {1, 2, 3}
\* Requests served by the site; each runs one save_obj_perms.
Requests == {"r1", "r2"}
NoRequest == "none"
\* Permission codenames. 1..MaxCatalog can belong to the object's model;
\* MaxCatalog + 1 belongs to no catalog (a codename of another model, or one
\* dropped from the model's Meta.permissions).
Codenames == 1..(MaxCatalog + 1)

VARIABLES
    store,        \* the grant store: principal -> codenames held on self.obj
    permissions,  \* Permission rows of self.obj's model, in catalog order
    pc,           \* per request: "idle", "remove", "assign", "done", "raised"
    form,         \* per request: the form instance and save_obj_perms' locals
    last,         \* history: last request that called the store on (principal, codename)
    prev          \* history: the last save that returned normally

vars == <<store, permissions, pc, form, last, prev>>

\* ------------------------------------------------------- pure functions
\* Python's set(list).
set(xs) == {xs[i] : i \in DOMAIN xs}

\* Permission.name of a codename.
PermName(codename) == <<"Can", codename>>

\* guardian.shortcuts.get_perms_for_model(obj): the Permission rows of the
\* object's content type.
get_perms_for_model == permissions

\* BaseObjectPermissionsForm.get_obj_perms_field_choices:
\*   [(p.codename, p.name) for p in get_perms_for_model(self.obj)]
get_obj_perms_field_choices ==
    [i \in DOMAIN get_perms_for_model |->
        <<get_perms_for_model[i], PermName(get_perms_for_model[i])>>]

\* model_perms = [c[0] for c in self.get_obj_perms_field_choices()]
model_perms ==
    [i \in DOMAIN get_obj_perms_field_choices |-> get_obj_perms_field_choices[i][1]]

\* cleaned_data['permissions'] of a valid form: MultipleChoiceField keeps the
\* posted list (order and repeats included) and accepts only values that are
\* choices of the field.
CleanedPerms ==
    UNION {[1..n -> set(model_perms)] : n \in 0..MaxPerms}

\* Mutants of to_remove: nothing is removed; every catalog codename is
\* removed; every codename that is not selected is removed.
to_remove_nothing(all, perms) == {}
to_remove_whole_catalog(all, perms) == set(all)
to_remove_every_codename(all, perms) == Codenames \ set(perms)

\* to_remove = set(model_perms) - set(perms)
to_remove(all, perms) == set(all) \ set(perms)

\* cleaned_data['user'] / cleaned_data['group']: the required ModelChoiceField
\* over get_user_queryset() / get_group_queryset() yields the row of the
\* queryset whose pk was posted; for any other pk the field does not validate
\* and cleaned_data has no such key.
cleaned_principal(queryset, selected) ==
    IF \E p \in queryset : p[2] = selected
    THEN CHOOSE p \in queryset : p[2] = selected
    ELSE NoPrincipal

\* AddUserObjectPermissionsForm.get_user_queryset: User.objects.all()
get_user_queryset == Users
\* AddGroupObjectPermissionsForm.get_group_queryset: Group.objects.all()
get_group_queryset == Groups

\* Mutant of target: the calls go to the first user, not to the form's one.
target_first_user(f) == <<"User", 1>>

\* The principal save_obj_perms passes to remove_perm and assign
\* (self.user, user, self.group, group).
target(f) == f.user

\* guardian.shortcuts.assign(perm, principal, obj): the grant exists afterwards.
assign(s, perm, who) == [s EXCEPT ![who] = @ \cup {perm}]
\* guardian.shortcuts.remove_perm(perm, principal, obj): the grant does not
\* exist afterwards.
remove_perm(s, perm, who) == [s EXCEPT ![who] = @ \ {perm}]

\* Mutant of LoopPc: the method returns after the removal loop.
LoopPc_without_assign(rest, perms, i) ==
    IF rest # {} THEN "remove" ELSE "done"

\* Control after one loop step: the removal loop runs while to_remove has
\* elements left, then the assignment loop runs over perms[i..], then the
\* method returns.
LoopPc(rest, perms, i) ==
    IF rest # {} THEN "remove"
    ELSE IF i <= Len(perms) THEN "assign"
    ELSE "done"

\* Mutant of RaisePc: the exception is swallowed and the loop goes on.
RaiseSwallowed(next) == next

\* An exception raised by remove_perm or assign is not caught in
\* save_obj_perms: it leaves both loops and reaches the caller.
RaisePc(next) == "raised"

\* The two loops of save_obj_perms run to their end on one principal's held
\* set: every element of to_remove is removed, then every element of perms is
\* assigned.
RECURSIVE RemoveEach(_, _)
RemoveEach(held, rest) ==
    IF rest = {} THEN held
    ELSE LET perm == CHOOSE c \in rest : TRUE IN
         RemoveEach(held \ {perm}, rest \ {perm})

RECURSIVE AssignEach(_, _, _)
AssignEach(held, perms, i) ==
    IF i > Len(perms) THEN held
    ELSE AssignEach(held \cup {perms[i]}, perms, i + 1)

save_obj_perms(held, all, perms) ==
    AssignEach(RemoveEach(held, to_remove(all, perms)), perms, 1)

\* ------------------------------------------------------------ the state
NoForm ==
    [cls |-> "", selected |-> 0, user |-> NoPrincipal, perms |-> <<>>,
     to_remove |-> {}, i |-> 1, start |-> {}, removed |-> {}, assigned |-> {},
     error |-> "", raised_on |-> <<>>]

NoPrev == [user |-> NoPrincipal, perms |-> {}, start |-> {}]

\* The catalog is any prefix of the codenames that can belong to a model; the
\* object may already carry any set of grants, the same for every principal
\* (a bulk assignment), also for codenames outside the catalog.
Init ==
    /\ \E k \in 0..MaxCatalog : permissions = [i \in 1..k |-> i]
    /\ \E held \in SUBSET Codenames : store = [p \in Principals |-> held]
    /\ pc = [r \in Requests |-> "idle"]
    /\ form = [r \in Requests |-> NoForm]
    /\ last = [p \in Principals |-> [c \in Codenames |-> NoRequest]]
    /\ prev = NoPrev

\* ----------------------------------------------------------- the actions
\* Lines 137-140 (and 218-222, 266-269, 347-351): read cleaned_data, compute
\* model_perms and to_remove, enter the loops.
Enter(r, cls, selected, user, perms) ==
    LET rm == to_remove(model_perms, perms) IN
    /\ pc[r] = "idle"
    /\ form' = [form EXCEPT ![r] =
            [cls |-> cls, selected |-> selected, user |-> user, perms |-> perms,
             to_remove |-> rm, i |-> 1, start |-> store[user],
             removed |-> {}, assigned |-> {}, error |-> "", raised_on |-> <<>>]]
    /\ pc' = [pc EXCEPT ![r] = LoopPc(rm, perms, 1)]
    /\ UNCHANGED <<store, permissions, last, prev>>

\* cleaned_data has no 'user' / 'group' key: line 218 / 347 raises before any
\* store call.
EnterInvalid(r, cls, selected) ==
    /\ pc[r] = "idle"
    /\ form' = [form EXCEPT ![r] =
            [NoForm EXCEPT !.cls = cls, !.selected = selected,
                           !.error = "invalid_choice"]]
    /\ pc' = [pc EXCEPT ![r] = "raised"]
    /\ UNCHANGED <<store, permissions, last, prev>>

\* UserObjectPermissionsForm(user, obj, data).save_obj_perms()
UserObjectPermissionsForm_save_obj_perms(r) ==
    \E u \in Users, perms \in CleanedPerms :
        Enter(r, "UserObjectPermissionsForm", u[2], u, perms)

\* GroupObjectPermissionsForm(group, obj, data).save_obj_perms()
GroupObjectPermissionsForm_save_obj_perms(r) ==
    \E g \in Groups, perms \in CleanedPerms :
        Enter(r, "GroupObjectPermissionsForm", g[2], g, perms)

\* AddUserObjectPermissionsForm(obj, data).save_obj_perms()
AddUserObjectPermissionsForm_save_obj_perms(r) ==
    \E selected \in PostedIds, perms \in CleanedPerms :
        LET user == cleaned_principal(get_user_queryset, selected) IN
        IF user = NoPrincipal
        THEN EnterInvalid(r, "AddUserObjectPermissionsForm", selected)
        ELSE Enter(r, "AddUserObjectPermissionsForm", selected, user, perms)

\* AddGroupObjectPermissionsForm(obj, data).save_obj_perms()
AddGroupObjectPermissionsForm_save_obj_perms(r) ==
    \E selected \in PostedIds, perms \in CleanedPerms :
        LET group == cleaned_principal(get_group_queryset, selected) IN
        IF group = NoPrincipal
        THEN EnterInvalid(r, "AddGroupObjectPermissionsForm", selected)
        ELSE Enter(r, "AddGroupObjectPermissionsForm", selected, group, perms)

\* for perm in to_remove: remove_perm(perm, user, self.obj)
\* One iteration; a set is iterated in an order the code does not fix.
RemoveLoop(r) ==
    /\ pc[r] = "remove"
    /\ \E perm \in form[r].to_remove :
        LET f == form[r]
            rest == f.to_remove \ {perm} IN
        /\ store' = remove_perm(store, perm, target(f))
        /\ last' = [last EXCEPT ![target(f)][perm] = r]
        /\ form' = [form EXCEPT ![r].to_remove = rest,
                                ![r].removed = @ \cup {perm}]
        /\ pc' = [pc EXCEPT ![r] = LoopPc(rest, f.perms, f.i)]
    /\ UNCHANGED <<permissions, prev>>

\* for perm in perms: assign(perm, user, self.obj)
\* One iteration, in list order.
AssignLoop(r) ==
    /\ pc[r] = "assign"
    /\ LET f == form[r]
           perm == f.perms[f.i] IN
        /\ store' = assign(store, perm, target(f))
        /\ last' = [last EXCEPT ![target(f)][perm] = r]
        /\ form' = [form EXCEPT ![r].i = @ + 1,
                                ![r].assigned = @ \cup {perm}]
        /\ pc' = [pc EXCEPT ![r] = LoopPc(f.to_remove, f.perms, f.i + 1)]
    /\ UNCHANGED <<permissions, prev>>

\* remove_perm raises (the backend fails): the store is unchanged.
RemoveRaises(r) ==
    /\ pc[r] = "remove"
    /\ \E perm \in form[r].to_remove :
        LET f == form[r]
            rest == f.to_remove \ {perm} IN
        /\ form' = [form EXCEPT ![r].to_remove = rest,
                                ![r].error = "store_exception",
                                ![r].raised_on = <<"remove", perm>>]
        /\ pc' = [pc EXCEPT ![r] = RaisePc(LoopPc(rest, f.perms, f.i))]
    /\ UNCHANGED <<store, permissions, last, prev>>

\* assign raises (the backend fails): the store is unchanged.
AssignRaises(r) ==
    /\ pc[r] = "assign"
    /\ LET f == form[r]
           perm == f.perms[f.i] IN
        /\ form' = [form EXCEPT ![r].i = @ + 1,
                                ![r].error = "store_exception",
                                ![r].raised_on = <<"assign", perm>>]
        /\ pc' = [pc EXCEPT ![r] = RaisePc(LoopPc(f.to_remove, f.perms, f.i + 1))]
    /\ UNCHANGED <<store, permissions, last, prev>>

\* The view returns its response; the request slot is free again.
Return(r) ==
    /\ pc[r] \in {"done", "raised"}
    /\ prev' = IF pc[r] = "done"
               THEN [user |-> form[r].user, perms |-> set(form[r].perms),
                     start |-> form[r].start]
               ELSE NoPrev
    /\ last' = [p \in Principals |-> [c \in Codenames |->
                    IF last[p][c] = r THEN NoRequest ELSE last[p][c]]]
    /\ form' = [form EXCEPT ![r] = NoForm]
    /\ pc' = [pc EXCEPT ![r] = "idle"]
    /\ UNCHANGED <<store, permissions>>

\* ---------------------------------------------------- the specifications
NoOtherRequest(r) == \A q \in Requests \ {r} : pc[q] = "idle"

\* One request, served to its end (the synchronous request/response model).
Next ==
    \E r \in Requests :
        \/ NoOtherRequest(r) /\ UserObjectPermissionsForm_save_obj_perms(r)
        \/ NoOtherRequest(r) /\ AddUserObjectPermissionsForm_save_obj_perms(r)
        \/ NoOtherRequest(r) /\ GroupObjectPermissionsForm_save_obj_perms(r)
        \/ NoOtherRequest(r) /\ AddGroupObjectPermissionsForm_save_obj_perms(r)
        \/ RemoveLoop(r)
        \/ AssignLoop(r)
        \/ RemoveRaises(r)
        \/ AssignRaises(r)

Spec == Init /\ [][Next]_vars

\* Saves of one (principal, object) pair, one after the other, each returning
\* normally.
SamePair(r) == prev = NoPrev \/ form'[r].user = prev.user

NextSeq ==
    \E r \in Requests :
        \/ NoOtherRequest(r) /\ UserObjectPermissionsForm_save_obj_perms(r) /\ SamePair(r)
        \/ NoOtherRequest(r) /\ GroupObjectPermissionsForm_save_obj_perms(r) /\ SamePair(r)
        \/ RemoveLoop(r)
        \/ AssignLoop(r)
        \/ Return(r)

SpecSeq == Init /\ [][NextSeq]_vars

\* Two requests served by two workers at once: nothing in save_obj_perms
\* keeps their store calls apart.
\* The two saves are on the same pair; the first to arrive takes slot r1;
\* each posts every selected option once (repeated values are posted under
\* Spec).
Overlapping(r) ==
    /\ r = "r1" \/ pc["r1"] # "idle"
    /\ \A q \in Requests \ {r} : pc[q] # "idle" => form'[r].user = form[q].user
    /\ Cardinality(set(form'[r].perms)) = Len(form'[r].perms)

NextConc ==
    \E r \in Requests :
        \/ UserObjectPermissionsForm_save_obj_perms(r) /\ Overlapping(r)
        \/ RemoveLoop(r)
        \/ AssignLoop(r)

SpecConc == Init /\ [][NextConc]_vars

\* ------------------------------------------------------------- the claims
Catalog == set(model_perms)
Desired(r) == set(form[r].perms)
Active(r) == pc[r] # "idle" /\ form[r].user # NoPrincipal
InLoops(r) == pc[r] \in {"remove", "assign"}
IsAddForm(r) ==
    form[r].cls \in {"AddUserObjectPermissionsForm", "AddGroupObjectPermissionsForm"}
Candidates(r) ==
    IF form[r].cls = "AddUserObjectPermissionsForm"
    THEN get_user_queryset ELSE get_group_queryset
\* The store calls a save has issued, the one that raised included.
IssuedRemoves(r) ==
    form[r].removed \cup
    (IF form[r].raised_on # <<>> /\ form[r].raised_on[1] = "remove"
     THEN {form[r].raised_on[2]} ELSE {})
IssuedAssigns(r) ==
    form[r].assigned \cup
    (IF form[r].raised_on # <<>> /\ form[r].raised_on[1] = "assign"
     THEN {form[r].raised_on[2]} ELSE {})

\* C1: when save_obj_perms has returned normally, the grants the principal
\* holds on the object, restricted to the catalog's codenames, are exactly the
\* posted set, whatever the catalog, the posted set and the grants held before.
C1_FinalGrantsAreDesired ==
    \A r \in Requests :
        pc[r] = "done" => store[form[r].user] \cap Catalog = Desired(r)

\* C1 witness: a group's save has returned after changing the catalog grants
\* to a posted set that is neither empty nor the whole catalog.
C1_Witness ==
    \E r \in Requests :
        /\ pc[r] = "done"
        /\ form[r].cls = "GroupObjectPermissionsForm"
        /\ form[r].start \cap Catalog # Desired(r)
        /\ Desired(r) # {} /\ Desired(r) # Catalog
        /\ store[form[r].user] \cap Catalog = Desired(r)

\* C2: at every point of a save (in the loops, after a raise, at the end) the
\* principal's grants for codenames outside the catalog are those it held when
\* the save began.
C2_OutsideCatalogUntouched ==
    \A r \in Requests :
        Active(r) => store[form[r].user] \ Catalog = form[r].start \ Catalog

\* C2 witness: a save that removed and assigned has ended, the principal
\* holding a grant outside the catalog all along.
C2_Witness ==
    \E r \in Requests :
        /\ pc[r] = "done"
        /\ form[r].start \ Catalog # {}
        /\ form[r].removed \cap form[r].start # {}
        /\ form[r].assigned \ form[r].start # {}

\* C3: a save of D2 that follows a save of D1 on the same pair ends in the
\* state a save of D2 alone reaches from the state before D1: nothing of D1
\* is left in it.
C3_SecondSaveDecides ==
    \A r \in Requests :
        (pc[r] = "done" /\ prev # NoPrev /\ prev.user = form[r].user)
            => store[form[r].user] = save_obj_perms(prev.start, model_perms, form[r].perms)

\* C3 witness: the first save granted a codename the principal did not hold
\* and the second save, now ended, did not post.
C3_Witness ==
    \E r \in Requests :
        /\ pc[r] = "done" /\ prev # NoPrev /\ prev.user = form[r].user
        /\ (prev.perms \ prev.start) \ Desired(r) # {}
        /\ Desired(r) \ prev.perms # {}

\* C4: while a save runs that posts the set the previous save of the same
\* pair posted, no step changes the grant store.
C4_SecondSaveIsNoOp ==
    [][\A r \in Requests :
        (InLoops(r) /\ prev # NoPrev /\ prev.user = form[r].user
            /\ prev.perms = Desired(r))
            => store' = store]_vars

\* C4 witness: such a repeated save has ended after calling remove_perm and
\* assign.
C4_Witness ==
    \E r \in Requests :
        /\ pc[r] = "done" /\ prev # NoPrev /\ prev.user = form[r].user
        /\ prev.perms = Desired(r)
        /\ form[r].removed # {} /\ form[r].assigned # {}

\* C5: a save that has returned normally called remove_perm for exactly the
\* catalog codenames that were not posted and assign for exactly the posted
\* ones, whatever the principal held.
C5_CallsAreCatalogMinusDesiredAndDesired ==
    \A r \in Requests :
        pc[r] = "done" =>
            /\ form[r].removed = Catalog \ Desired(r)
            /\ form[r].assigned = Desired(r)

\* C5 witness: the save removed a codename the principal did not hold and
\* assigned one it held.
C5_Witness ==
    \E r \in Requests :
        /\ pc[r] = "done"
        /\ form[r].removed \ form[r].start # {}
        /\ form[r].assigned \cap form[r].start # {}

C7_RaiseAbortsAndLeavesPartialState ==
    \A r \in Requests :
        /\ form[r].error = "store_exception" => pc[r] = "raised"
        /\ (pc[r] = "raised" /\ form[r].error = "store_exception") =>
            /\ store[form[r].user] = (form[r].start \ form[r].removed) \cup form[r].assigned
            /\ \A c \in Catalog :
                \/ (c \in store[form[r].user]) <=> (c \in form[r].start)
                \/ (c \in store[form[r].user]) <=> (c \in Desired(r))
            /\ ~ ENABLED (RemoveLoop(r) \/ AssignLoop(r) \/ RemoveRaises(r) \/ AssignRaises(r))

\* C7 witness: assign raised after a remove had changed the store, posted
\* permissions still to assign: the state is neither the old nor the posted one.
C7_Witness ==
    \E r \in Requests :
        /\ pc[r] = "raised" /\ form[r].error = "store_exception"
        /\ form[r].raised_on[1] = "assign"
        /\ form[r].removed \cap form[r].start # {}
        /\ Desired(r) \ store[form[r].user] # {}
        /\ store[form[r].user] # form[r].start

\* C8: when two overlapping saves of one pair have both returned normally,
\* every catalog codename is held exactly if the save that called the store
\* on it last had it posted.
C8_LastWriterWinsPerCodename ==
    (\A r \in Requests : pc[r] = "done" /\ form[r].user = form["r1"].user) =>
        \A c \in Catalog :
            LET w == last[form["r1"].user][c] IN
            /\ w \in Requests
            /\ (c \in store[form["r1"].user]) <=> (c \in Desired(w))

\* C8 witness: both saves have returned and the catalog grants of the pair
\* are the posted set of neither.
C8_Witness ==
    /\ \A r \in Requests : pc[r] = "done" /\ form[r].user = form["r1"].user
    /\ \A r \in Requests : store[form["r1"].user] \cap Catalog # Desired(r)

\* C9: an add form whose posted pk is the pk of no candidate raises without a
\* store call; otherwise its principal is the candidate with that pk and
\* every store call of the save is on that principal.
C9_ResolvedPrincipalIsTheTarget ==
    \A r \in Requests :
        (pc[r] # "idle" /\ IsAddForm(r)) =>
            /\ (~ \E p \in Candidates(r) : p[2] = form[r].selected) =>
                /\ pc[r] = "raised" /\ form[r].error = "invalid_choice"
                /\ IssuedRemoves(r) = {} /\ IssuedAssigns(r) = {}
                /\ \A p \in Principals, c \in Codenames : last[p][c] # r
            /\ (\E p \in Candidates(r) : p[2] = form[r].selected) =>
                /\ form[r].user \in Candidates(r)
                /\ form[r].user[2] = form[r].selected
                /\ \A p \in Principals, c \in Codenames :
                    last[p][c] = r => p = form[r].user
                /\ \A c \in form[r].removed \cup form[r].assigned :
                    last[form[r].user][c] = r

\* C9 witness: an add-user save for the second user has ended after removing
\* and assigning.
C9_Witness ==
    \E r \in Requests :
        /\ pc[r] = "done"
        /\ form[r].cls = "AddUserObjectPermissionsForm"
        /\ form[r].selected = 2
        /\ form[r].removed # {} /\ form[r].assigned # {}

\* C10: to_remove and the posted set are disjoint and make up the catalog, no
\* codename is both removed and assigned, and at every point of a save a
\* posted grant that was held is held and a catalog grant that was neither
\* held nor posted is not held.
C10_NoTransientRevocation ==
    \A r \in Requests :
        Active(r) =>
            /\ to_remove(model_perms, form[r].perms) \cap Desired(r) = {}
            /\ to_remove(model_perms, form[r].perms) \cup Desired(r) = Catalog
            /\ IssuedRemoves(r) \cap Desired(r) = {}
            /\ IssuedRemoves(r) \cap IssuedAssigns(r) = {}
            /\ (Desired(r) \cap form[r].start) \subseteq store[form[r].user]
            /\ ((Catalog \ Desired(r)) \ form[r].start) \cap store[form[r].user] = {}

\* C10 witness: between the loops, a held grant has been removed and a held
\* posted grant is still to be assigned.
C10_Witness ==
    \E r \in Requests :
        /\ pc[r] = "assign" /\ form[r].i = 1
        /\ form[r].removed \cap form[r].start # {}
        /\ Desired(r) \cap form[r].start # {}

====
